---- MODULE Spec2Model ----
\* Model of the order matching core of src/_order_management.py:
\* class MatchingEngine with its two books (bid_book, ask_book) and the
\* operations handle_order (dispatching to handle_limit_order,
\* handle_market_order, handle_ioc_order), insert_limit_order,
\* amend_quantity and cancel_order, and of the constructors of the order
\* classes (Order, LimitOrder, MarketOrder, IOCOrder, FilledOrder).
\*
\* An order object is a record [id, symbol, quantity, side, time, type, price].
\* A MarketOrder is constructed without a price attribute; its price field is
\* NoPrice until the handler assigns one.  Reading the price of such an object
\* raises AttributeError in Python; the model raises at the same places and
\* leaves the books as the interrupted handler left them.
EXTENDS Integers, Sequences, FiniteSets

VARIABLES bid_book, ask_book, nextId, last, made, ledger, broker

vars == <<bid_book, ask_book, nextId, last, made, ledger, broker>>

\* ---------------------------------------------------------------- bounds
MaxOrders == 3
MaxPrice == 2
MaxQty == 2

Symbols == {"A", "B"}
Prices == 1..MaxPrice
Quantities == 1..MaxQty

\* ---------------------------------------------------------------- orders
NoPrice == 0

LimitOrder(id, symbol, quantity, price, side, time) ==
  [id |-> id, symbol |-> symbol, quantity |-> quantity, side |-> side,
   time |-> time, type |-> "LIMIT", price |-> price]

MarketOrder(id, symbol, quantity, side, time) ==
  [id |-> id, symbol |-> symbol, quantity |-> quantity, side |-> side,
   time |-> time, type |-> "MARKET", price |-> NoPrice]

IOCOrder(id, symbol, quantity, price, side, time) ==
  [id |-> id, symbol |-> symbol, quantity |-> quantity, side |-> side,
   time |-> time, type |-> "IOC", price |-> price]

\* A FilledOrder has a price but no type attribute (its limit flag is read
\* nowhere in the engine and is left out).  NoType stands for the missing
\* attribute: reading order.type of such an object raises AttributeError.
NoType == "absent"

FilledOrder(id, symbol, quantity, price, side, time) ==
  [id |-> id, symbol |-> symbol, quantity |-> quantity, side |-> side,
   time |-> time, type |-> NoType, price |-> price]

\* Placeholder for "no order" in the record of the last call.
NoOrder ==
  [id |-> 0, symbol |-> "", quantity |-> 0, side |-> "", time |-> 0,
   type |-> "", price |-> NoPrice]

\* Order.__init__: the quantity is checked first, then the side.  The result
\* is the name of the exception raised, "none" when the object is built.
OrderInit(quantity, side) ==
  IF quantity > 0 THEN
    IF side \in {"BUY", "SELL"} THEN "none" ELSE "InvalidSide"
  ELSE "NonPositiveQuantity"

\* Mutant of PricedInit: the price is checked before the base class runs.
PricedInitPriceFirst(quantity, price, side) ==
  IF price > 0 THEN OrderInit(quantity, side) ELSE "NonPositivePrice"

\* LimitOrder.__init__ and IOCOrder.__init__: the base class first, then the
\* price.
PricedInit(quantity, price, side) ==
  LET e == OrderInit(quantity, side) IN
  IF e # "none" THEN e
  ELSE IF price > 0 THEN "none" ELSE "NonPositivePrice"

\* Mutant of InitError: FilledOrder checked like the base class but with a
\* zero quantity let through.
InitErrorFilledUnchecked(kind, quantity, price, side) ==
  CASE kind \in {"LIMIT", "IOC"} -> PricedInit(quantity, price, side)
    [] kind = "FILLED" /\ quantity = 0 -> "none"
    [] OTHER -> OrderInit(quantity, side)

\* The exception a constructor call raises, by class: MarketOrder and
\* FilledOrder run the base class checks only (FilledOrder stores its price
\* unchecked).
InitError(kind, quantity, price, side) ==
  CASE kind \in {"LIMIT", "IOC"} -> PricedInit(quantity, price, side)
    [] OTHER -> OrderInit(quantity, side)

\* A constructor call: the exception raised and the object created, NoOrder
\* when the call raised.
New(kind, id, symbol, quantity, price, side, time) ==
  LET e == InitError(kind, quantity, price, side) IN
  [raised |-> e,
   order |-> IF e # "none" THEN NoOrder
             ELSE CASE kind = "LIMIT" -> LimitOrder(id, symbol, quantity, price, side, time)
                    [] kind = "MARKET" -> MarketOrder(id, symbol, quantity, side, time)
                    [] kind = "IOC" -> IOCOrder(id, symbol, quantity, price, side, time)
                    [] OTHER -> FilledOrder(id, symbol, quantity, price, side, time)]

\* An entry of filled_orders is the order object itself (no FilledOrder is
\* constructed).  leg and against are instrumentation: which leg of the match
\* the object is, and the price attribute of the resting order it was matched
\* against at that step.
Fill(o, leg, against) ==
  [id |-> o.id, symbol |-> o.symbol, quantity |-> o.quantity, side |-> o.side,
   time |-> o.time, type |-> o.type, price |-> o.price,
   leg |-> leg, against |-> against]

\* ---------------------------------------------------------------- sorting
\* Evaluating a key that reads x.price raises AttributeError when an element
\* has no price attribute.
HasNoPrice(s) == \E i \in 1..Len(s) : s[i].price = NoPrice

\* key=lambda x: (-x.price, x.time)
BidInsertKeyLess(a, b) ==
  \/ a.price > b.price
  \/ a.price = b.price /\ a.time < b.time

\* key=lambda x: (x.price, -x.time)
AskInsertKeyLess(a, b) ==
  \/ a.price < b.price
  \/ a.price = b.price /\ a.time > b.time

\* key=lambda x: (x.price, x.time), ask book after a market BUY
AskMarketKeyLess(a, b) ==
  \/ a.price < b.price
  \/ a.price = b.price /\ a.time < b.time

\* key=lambda x: (x.price, x.time), bid book after a market SELL
BidMarketKeyLess(a, b) ==
  \/ a.price < b.price
  \/ a.price = b.price /\ a.time < b.time

\* key=lambda x: (x.price, x.time), ask book after an IOC BUY
AskIOCKeyLess(a, b) ==
  \/ a.price < b.price
  \/ a.price = b.price /\ a.time < b.time

\* key=lambda x: (x.price, x.time), bid book after an IOC SELL
BidIOCKeyLess(a, b) ==
  \/ a.price < b.price
  \/ a.price = b.price /\ a.time < b.time

\* The key of each sorted(...) call of the engine, by the place of the call.
KeyLess(key, a, b) ==
  CASE key = "bid_insert" -> BidInsertKeyLess(a, b)
    [] key = "ask_insert" -> AskInsertKeyLess(a, b)
    [] key = "ask_market" -> AskMarketKeyLess(a, b)
    [] key = "bid_market" -> BidMarketKeyLess(a, b)
    [] key = "ask_ioc" -> AskIOCKeyLess(a, b)
    [] key = "bid_ioc" -> BidIOCKeyLess(a, b)

\* Python's sorted(list, key=...) : stable, ascending in the key.
SortedBy(s, key) ==
  LET n == Len(s)
      rank(i) == Cardinality({j \in 1..n :
                    \/ KeyLess(key, s[j], s[i])
                    \/ ~KeyLess(key, s[i], s[j]) /\ j < i})
  IN [k \in 1..n |-> s[CHOOSE i \in 1..n : rank(i) = k - 1]]

\* ---------------------------------------------------------------- crossing
\* The price condition of each handler branch (the elif of the loop body).
LimitBuyCrosses(order, book) == order.price <= book.price

\* Mutant of LimitSellCrosses: the comparison the other way round.
LimitSellCrossesFlipped(order, book) == order.price >= book.price

LimitSellCrosses(order, book) == order.price <= book.price

IOCBuyCrosses(order, book) == order.price <= book.price

IOCSellCrosses(order, book) == order.price <= book.price

Crosses(order, book) ==
  CASE order.type = "LIMIT" /\ order.side = "BUY" -> LimitBuyCrosses(order, book)
    [] order.type = "LIMIT" /\ order.side = "SELL" -> LimitSellCrosses(order, book)
    [] order.type = "IOC" /\ order.side = "BUY" -> IOCBuyCrosses(order, book)
    [] order.type = "IOC" /\ order.side = "SELL" -> IOCSellCrosses(order, book)
    [] OTHER -> TRUE

\* The market and IOC handlers assign order.price = book.price before they
\* append the fully filled incoming order; the limit handler does not.
SetsOrderPrice(order) == order.type \in {"MARKET", "IOC"}

\* The three quantity branches of one match.  w is the loop's local state
\* [order, temp, filled, err]; book is the entry just popped.  The records
\* appended to filled are the objects as the handler leaves them (quantity is
\* zeroed after the append, and the list holds the object, not a copy).
\* Mutant of MatchQuantities: in the branch book.quantity > order.quantity
\* the copy that goes back into the book keeps the full quantity.
MatchQuantitiesNotReducing(w, book) ==
  LET order == w.order IN
  IF order.quantity > book.quantity THEN
    [w EXCEPT !.order.quantity = order.quantity - book.quantity,
              !.filled = Append(@, Fill([book EXCEPT !.quantity = 0],
                                        "resting", book.price))]
  ELSE IF book.quantity > order.quantity THEN
    LET mod_book_order == book
        filledBook == [book EXCEPT !.quantity = order.quantity]
    IN IF SetsOrderPrice(order) /\ book.price = NoPrice
       THEN [w EXCEPT !.temp = Append(@, mod_book_order),
                      !.err = "AttributeError"]
       ELSE LET done == [order EXCEPT
                           !.price = IF SetsOrderPrice(order) THEN book.price ELSE @,
                           !.quantity = 0]
            IN [w EXCEPT !.temp = Append(@, mod_book_order),
                         !.order = done,
                         !.filled = @ \o <<Fill(done, "incoming", book.price),
                                           Fill(filledBook, "resting", book.price)>>]
  ELSE
    LET done == [order EXCEPT !.quantity = 0] IN
    [w EXCEPT !.order = done,
              !.filled = @ \o <<Fill([book EXCEPT !.quantity = 0], "resting", book.price),
                                Fill(done, "incoming", book.price)>>]

MatchQuantities(w, book) ==
  LET order == w.order IN
  IF order.quantity > book.quantity THEN
    [w EXCEPT !.order.quantity = order.quantity - book.quantity,
              !.filled = Append(@, Fill([book EXCEPT !.quantity = 0],
                                        "resting", book.price))]
  ELSE IF book.quantity > order.quantity THEN
    LET mod_book_order == [book EXCEPT !.quantity = book.quantity - order.quantity]
        filledBook == [book EXCEPT !.quantity = order.quantity]
    IN IF SetsOrderPrice(order) /\ book.price = NoPrice
       THEN [w EXCEPT !.temp = Append(@, mod_book_order),
                      !.err = "AttributeError"]
       ELSE LET done == [order EXCEPT
                           !.price = IF SetsOrderPrice(order) THEN book.price ELSE @,
                           !.quantity = 0]
            IN [w EXCEPT !.temp = Append(@, mod_book_order),
                         !.order = done,
                         !.filled = @ \o <<Fill(done, "incoming", book.price),
                                           Fill(filledBook, "resting", book.price)>>]
  ELSE
    LET done == [order EXCEPT !.quantity = 0] IN
    [w EXCEPT !.order = done,
              !.filled = @ \o <<Fill([book EXCEPT !.quantity = 0], "resting", book.price),
                                Fill(done, "incoming", book.price)>>]

\* One iteration of `while book: book = book.pop(0) ...`.
LoopBody(w, book) ==
  IF book.symbol # w.order.symbol \/ w.order.quantity = 0 THEN
    [w EXCEPT !.temp = Append(@, book)]
  ELSE IF w.order.type # "MARKET" /\ book.price = NoPrice THEN
    [w EXCEPT !.err = "AttributeError"]
  ELSE IF Crosses(w.order, book) THEN
    MatchQuantities(w, book)
  ELSE
    [w EXCEPT !.temp = Append(@, book)]

\* Instrumentation of one iteration: steps counts the iterations of the
\* loop, matches notes each match that appended to filled_orders, with the
\* identifier of the resting entry and the quantity matched (the smaller of
\* the two quantities at that step).  w is the loop state before the
\* iteration and w2 after it.
Noted(w, w2, book) ==
  [w2 EXCEPT
     !.steps = @ + 1,
     !.matches = IF Len(w2.filled) > Len(w.filled)
                 THEN Append(@, [resting |-> book.id,
                                 quantity |-> IF w.order.quantity < book.quantity
                                              THEN w.order.quantity
                                              ELSE book.quantity])
                 ELSE @]

Iteration(w, book) == Noted(w, LoopBody(w, book), book)

\* The whole loop over the opposite book.  rest is what is still in
\* self.<side>_book; an exception leaves the loop with the popped entries gone.
RECURSIVE Walk(_, _)
Walk(w, rest) ==
  IF rest = <<>> THEN [w EXCEPT !.rest = <<>>]
  ELSE LET w2 == Iteration(w, Head(rest)) IN
       IF w2.err # "none" THEN [w2 EXCEPT !.rest = Tail(rest)]
       ELSE Walk(w2, Tail(rest))

\* Mutant of StartWalk: the incoming order has been put into the book the
\* loop runs over.
StartWalkOverOwnOrder(order, book) ==
  Walk([order |-> order, temp |-> <<>>, filled |-> <<>>, err |-> "none",
        rest |-> <<>>, steps |-> 0, matches |-> <<>>], Append(book, order))

StartWalk(order, book) ==
  Walk([order |-> order, temp |-> <<>>, filled |-> <<>>, err |-> "none",
        rest |-> <<>>, steps |-> 0, matches |-> <<>>], book)

\* ---------------------------------------------------------------- insert
\* Mutant of insert_limit_order: the order is appended to both books.
insert_limit_order_both_books(order, bids, asks) ==
  LET b1 == Append(bids, order)
      a1 == Append(asks, order)
  IN IF HasNoPrice(b1) THEN
       [bid |-> b1, ask |-> a1, err |-> "AttributeError"]
     ELSE IF HasNoPrice(a1) THEN
       [bid |-> SortedBy(b1, "bid_insert"), ask |-> a1, err |-> "AttributeError"]
     ELSE
       [bid |-> SortedBy(b1, "bid_insert"),
        ask |-> SortedBy(a1, "ask_insert"), err |-> "none"]

\* insert_limit_order: append to the order's side, then re-sort both books.
\* Returns the two books and the exception raised, if any.
insert_limit_order(order, bids, asks) ==
  LET b1 == IF order.side = "BUY" THEN Append(bids, order) ELSE bids
      a1 == IF order.side = "SELL" THEN Append(asks, order) ELSE asks
  IN IF HasNoPrice(b1) THEN
       [bid |-> b1, ask |-> a1, err |-> "AttributeError"]
     ELSE IF HasNoPrice(a1) THEN
       [bid |-> SortedBy(b1, "bid_insert"), ask |-> a1, err |-> "AttributeError"]
     ELSE
       [bid |-> SortedBy(b1, "bid_insert"),
        ask |-> SortedBy(a1, "ask_insert"), err |-> "none"]

\* ---------------------------------------------------------------- handlers
\* Mutant of SideIsNone: the check left out.
SideIsNoneUnchecked(order) == FALSE

\* `if order.side == None: raise UndefinedOrderSide`, the first statement of
\* every handler after filled_orders = [].
SideIsNone(order) == order.side = "NONE"

\* Neither `if order.side == OrderSide.BUY` nor `if order.side ==
\* OrderSide.SELL` is entered: the handler goes straight to its return.
SideSkipsBothBranches(order) == order.side \notin {"BUY", "SELL"}

\* Each handler returns [bid, ask, filled, err, remaining]: the books after
\* the call, the list it returns (empty when it raised), the exception raised
\* and the quantity attribute of the caller's order object after the call.
Outcome(bids, asks, w, err) ==
  [bid |-> bids, ask |-> asks,
   filled |-> IF err = "none" THEN w.filled ELSE <<>>, err |-> err,
   remaining |-> w.order.quantity,
   iterations |-> w.steps, matches |-> w.matches]

\* A call that ends before any book access: by a raise (err) or, with
\* err = "none", by returning the empty filled_orders.
Untouched(order, bids, asks, err) ==
  [bid |-> bids, ask |-> asks, filled |-> <<>>, err |-> err,
   remaining |-> order.quantity, iterations |-> 0, matches |-> <<>>]

handle_limit_order(order, bids, asks) ==
  LET w == StartWalk(order, IF order.side = "BUY" THEN asks ELSE bids)
  IN IF SideIsNone(order) THEN
       Untouched(order, bids, asks, "UndefinedOrderSide")
     ELSE IF SideSkipsBothBranches(order) THEN
       Untouched(order, bids, asks, "none")
     ELSE IF w.err # "none" THEN
       IF order.side = "BUY" THEN Outcome(bids, w.rest, w, w.err)
                             ELSE Outcome(w.rest, asks, w, w.err)
     ELSE
       LET b1 == IF order.side = "BUY" THEN bids ELSE w.temp
           a1 == IF order.side = "BUY" THEN w.temp ELSE asks
       IN IF w.order.quantity > 0 THEN
            LET ins == insert_limit_order(w.order, b1, a1)
            IN Outcome(ins.bid, ins.ask, w, ins.err)
          ELSE Outcome(b1, a1, w, "none")

\* After the loop of a market BUY: the remainder is appended to temp_list,
\* which becomes the ask book and is then sorted.
MarketBuyBook(w) ==
  IF w.order.quantity > 0 THEN Append(w.temp, w.order) ELSE w.temp

\* After the loop of a market SELL, likewise for the bid book.
MarketSellBook(w) ==
  IF w.order.quantity > 0 THEN Append(w.temp, w.order) ELSE w.temp

handle_market_order(order, bids, asks) ==
  LET w == StartWalk(order, IF order.side = "BUY" THEN asks ELSE bids)
  IN IF SideIsNone(order) THEN
       Untouched(order, bids, asks, "UndefinedOrderSide")
     ELSE IF SideSkipsBothBranches(order) THEN
       Untouched(order, bids, asks, "none")
     ELSE IF w.err # "none" THEN
       IF order.side = "BUY" THEN Outcome(bids, w.rest, w, w.err)
                             ELSE Outcome(w.rest, asks, w, w.err)
     ELSE IF order.side = "BUY" THEN
       LET a1 == MarketBuyBook(w) IN
       IF HasNoPrice(a1) THEN Outcome(bids, a1, w, "AttributeError")
       ELSE Outcome(bids, SortedBy(a1, "ask_market"), w, "none")
     ELSE
       LET b1 == MarketSellBook(w) IN
       IF HasNoPrice(b1) THEN Outcome(b1, asks, w, "AttributeError")
       ELSE Outcome(SortedBy(b1, "bid_market"), asks, w, "none")

\* Mutant of IOCBuyBook: the remainder appended as the market handler does.
IOCBuyBookPosting(w) ==
  IF w.order.quantity > 0 THEN Append(w.temp, w.order) ELSE w.temp

\* After the loop of an IOC BUY: temp_list becomes the ask book; the
\* remainder of the order is not appended.
IOCBuyBook(w) == w.temp

\* After the loop of an IOC SELL, likewise for the bid book.
IOCSellBook(w) == w.temp

handle_ioc_order(order, bids, asks) ==
  LET w == StartWalk(order, IF order.side = "BUY" THEN asks ELSE bids)
  IN IF SideIsNone(order) THEN
       Untouched(order, bids, asks, "UndefinedOrderSide")
     ELSE IF SideSkipsBothBranches(order) THEN
       Untouched(order, bids, asks, "none")
     ELSE IF w.err # "none" THEN
       IF order.side = "BUY" THEN Outcome(bids, w.rest, w, w.err)
                             ELSE Outcome(w.rest, asks, w, w.err)
     ELSE IF order.side = "BUY" THEN
       LET a1 == IOCBuyBook(w) IN
       IF HasNoPrice(a1) THEN Outcome(bids, a1, w, "AttributeError")
       ELSE Outcome(bids, SortedBy(a1, "ask_ioc"), w, "none")
     ELSE
       LET b1 == IOCSellBook(w) IN
       IF HasNoPrice(b1) THEN Outcome(b1, asks, w, "AttributeError")
       ELSE Outcome(SortedBy(b1, "bid_ioc"), asks, w, "none")

\* handle_order: dispatch on order.type.  No branch returns the handler's
\* list, so the call itself returns None.  An object without a type attribute
\* raises AttributeError at the first comparison; any other value reaches
\* the else branch.
handle_order(order, bids, asks) ==
  CASE order.type = NoType ->
         Untouched(order, bids, asks, "AttributeError")
    [] order.type = "LIMIT" -> handle_limit_order(order, bids, asks)
    [] order.type = "IOC" -> handle_ioc_order(order, bids, asks)
    [] order.type = "MARKET" -> handle_market_order(order, bids, asks)
    [] OTHER ->
         Untouched(order, bids, asks, "UndefinedOrderType")

\* ---------------------------------------------------------------- amend
Ids(s) == {s[i].id : i \in 1..Len(s)}

\* amend_quantity.  The bid loop visits every bid with the identifier: a
\* larger quantity raises NewQuantityNotSmaller, any other is assigned.  When
\* no bid was found the ask loop runs: a larger quantity raises, any other
\* reaches ask['quantity'] = quantity, which raises TypeError (an order
\* object does not support item assignment).  The method has no return
\* statement that is reached: it returns None.
\* Mutant of amend_quantity: the new quantity is assigned without the
\* comparison with the current one.
amend_quantity_unchecked(id, quantity, bids, asks) ==
  IF id \in Ids(bids) THEN
    LET i == CHOOSE k \in 1..Len(bids) : bids[k].id = id
    IN [bid |-> [bids EXCEPT ![i].quantity = quantity], ask |-> asks,
        err |-> "none", ret |-> "None"]
  ELSE IF id \in Ids(asks) THEN
    [bid |-> bids, ask |-> asks, err |-> "TypeError", ret |-> "raised"]
  ELSE [bid |-> bids, ask |-> asks, err |-> "none", ret |-> "None"]

amend_quantity(id, quantity, bids, asks) ==
  IF id \in Ids(bids) THEN
    LET i == CHOOSE k \in 1..Len(bids) : bids[k].id = id
    IN IF quantity > bids[i].quantity
       THEN [bid |-> bids, ask |-> asks, err |-> "NewQuantityNotSmaller", ret |-> "raised"]
       ELSE [bid |-> [bids EXCEPT ![i].quantity = quantity], ask |-> asks,
             err |-> "none", ret |-> "None"]
  ELSE IF id \in Ids(asks) THEN
    LET i == CHOOSE k \in 1..Len(asks) : asks[k].id = id
    IN IF quantity > asks[i].quantity
       THEN [bid |-> bids, ask |-> asks, err |-> "NewQuantityNotSmaller", ret |-> "raised"]
       ELSE [bid |-> bids, ask |-> asks, err |-> "TypeError", ret |-> "raised"]
  ELSE [bid |-> bids, ask |-> asks, err |-> "none", ret |-> "None"]

\* ---------------------------------------------------------------- cancel
\* Mutant of RemoveAt: everything from the index on is dropped.
RemoveAtTruncating(s, i) == SubSeq(s, 1, i - 1)

RemoveAt(s, i) == SubSeq(s, 1, i - 1) \o SubSeq(s, i + 1, Len(s))

FirstIndex(s, id) ==
  CHOOSE k \in 1..Len(s) : s[k].id = id /\ \A j \in 1..(k - 1) : s[j].id # id

\* Mutant of cancel_order: the order is found and True is returned, but the
\* entry is not deleted.
cancel_order_not_deleting(id, bids, asks) ==
  IF id \in Ids(bids) \/ id \in Ids(asks) THEN
    [bid |-> bids, ask |-> asks, ret |-> "True"]
  ELSE [bid |-> bids, ask |-> asks, ret |-> "False"]

cancel_order(id, bids, asks) ==
  IF id \in Ids(bids) THEN
    [bid |-> RemoveAt(bids, FirstIndex(bids, id)), ask |-> asks, ret |-> "True"]
  ELSE IF id \in Ids(asks) THEN
    [bid |-> bids, ask |-> RemoveAt(asks, FirstIndex(asks, id)), ret |-> "True"]
  ELSE [bid |-> bids, ask |-> asks, ret |-> "False"]

\* ---------------------------------------------------------------- state
\* last records the most recent call: its arguments, the books before it,
\* what the kind-specific handler returned (filled), the quantity left on the
\* submitted order object (remaining), what the entry point returned (ret)
\* and the exception that left it (raised).  again says that the call is a
\* cancel_order that directly follows a cancel_order of the same identifier
\* which returned True.
Call(op, order, id, quantity, filled, remaining, raised, ret) ==
  [op |-> op, order |-> order, id |-> id, quantity |-> quantity,
   bid0 |-> bid_book, ask0 |-> ask_book,
   filled |-> filled, remaining |-> remaining, raised |-> raised, ret |-> ret,
   again |-> op = "cancel" /\ last.op = "cancel" /\ last.id = id
                           /\ last.ret = "True",
   iterations |-> 0]

\* ledger is an account per identifier, kept next to the engine: the
\* quantity the order was created with (original), the quantity matched for
\* it as the incoming order (taken), the quantity it had when it entered a
\* book (rested) and the quantity matched against it as a resting entry
\* (given).  The accounts are kept only when ledger.on is set, which
\* SpecLedger does at the start.
NoAccount == [original |-> 0, taken |-> 0, rested |-> 0, given |-> 0]

RECURSIVE MatchedQuantity(_)
MatchedQuantity(matches) ==
  IF matches = <<>> THEN 0
  ELSE Head(matches).quantity + MatchedQuantity(Tail(matches))

MatchesAgainst(matches, id) == SelectSeq(matches, LAMBDA m : m.resting = id)

RestingQuantity(id, bids, asks) ==
  LET both == bids \o asks IN
  IF id \in Ids(both)
  THEN both[CHOOSE k \in 1..Len(both) : both[k].id = id].quantity
  ELSE 0

Account(order, r) ==
  [id \in 1..MaxOrders |->
     IF id = order.id
     THEN [original |-> order.quantity,
           taken |-> MatchedQuantity(r.matches),
           rested |-> RestingQuantity(id, r.bid, r.ask),
           given |-> 0]
     ELSE [ledger.accounts[id] EXCEPT
             !.given = @ + MatchedQuantity(MatchesAgainst(r.matches, id))]]

\* SimulatedBrokerAdapter.__init__: not connected, no order submitted, no
\* position, no fill, the starting cash.  positions maps a symbol to a
\* quantity and reads 0 for a symbol it has no key for; order_status and
\* submitted_orders are keyed by the order counter (the number in "SIM%06d")
\* and submitted_orders holds the order object, named here by its id.
StartingCash == 100000

NewBroker ==
  [connected |-> FALSE, order_counter |-> 0, submitted_orders |-> <<>>,
   order_status |-> <<>>, positions |-> [s \in Symbols |-> 0],
   cash |-> StartingCash, fills |-> <<>>]

Init ==
  /\ bid_book = <<>>
  /\ ask_book = <<>>
  /\ nextId = 1
  /\ last = [op |-> "init", order |-> NoOrder, id |-> 0, quantity |-> 0,
             bid0 |-> <<>>, ask0 |-> <<>>,
             filled |-> <<>>, remaining |-> 0, raised |-> "none", ret |-> "None",
             again |-> FALSE, iterations |-> 0]
  /\ ledger = [on |-> FALSE, accounts |-> [id \in 1..MaxOrders |-> NoAccount]]
  /\ made = [kind |-> "", quantity |-> 0, price |-> 0, side |-> "",
             raised |-> "none", order |-> NoOrder]
  /\ broker = NewBroker

\* What handle_order hands back to its caller.  Each branch calls the
\* handler as a statement and drops its list, so a call that does not raise
\* falls off the end of the method: the value is None ("list" would stand for
\* the handler's list being returned).
HandleOrderReturn(r) == IF r.err = "none" THEN "None" ELSE "raised"

\* The engine and its caller's order after a handle_order call whose
\* outcome is r.
Handled(order, r) ==
  /\ bid_book' = r.bid
  /\ ask_book' = r.ask
  /\ nextId' = nextId + 1
  /\ last' = [Call("submit", order, order.id, order.quantity, r.filled, r.remaining,
                   r.err, HandleOrderReturn(r))
                EXCEPT !.iterations = r.iterations]
  /\ ledger' = IF ledger.on THEN [ledger EXCEPT !.accounts = Account(order, r)]
                ELSE ledger
  /\ UNCHANGED made

\* The state after a handle_order call whose outcome is r.
Submitted(order, r) ==
  /\ Handled(order, r)
  /\ UNCHANGED broker

\* The caller creates the order with a fresh identifier and timestamp and
\* submits it once through handle_order.
Submit(order) ==
  Submitted(order, handle_order(order, bid_book, ask_book))

SubmitLimit ==
  /\ nextId <= MaxOrders
  /\ \E s \in Symbols, q \in Quantities, p \in Prices, side \in {"BUY", "SELL"} :
       Submit(LimitOrder(nextId, s, q, p, side, nextId))

SubmitMarket ==
  /\ nextId <= MaxOrders
  /\ \E s \in Symbols, q \in Quantities, side \in {"BUY", "SELL"} :
       Submit(MarketOrder(nextId, s, q, side, nextId))

SubmitIOC ==
  /\ nextId <= MaxOrders
  /\ \E s \in Symbols, q \in Quantities, p \in Prices, side \in {"BUY", "SELL"} :
       Submit(IOCOrder(nextId, s, q, p, side, nextId))

Amend ==
  \E id \in 1..MaxOrders, q \in 0..MaxQty :
    LET r == amend_quantity(id, q, bid_book, ask_book) IN
    /\ bid_book' = r.bid
    /\ ask_book' = r.ask
    /\ last' = Call("amend", NoOrder, id, q, <<>>, 0, r.err, r.ret)
    /\ UNCHANGED <<nextId, made, ledger, broker>>

Cancel ==
  \E id \in 1..MaxOrders :
    LET r == cancel_order(id, bid_book, ask_book) IN
    /\ bid_book' = r.bid
    /\ ask_book' = r.ask
    /\ last' = Call("cancel", NoOrder, id, 0, <<>>, 0, "none", r.ret)
    /\ UNCHANGED <<nextId, made, ledger, broker>>

Next ==
  \/ SubmitLimit
  \/ SubmitMarket
  \/ SubmitIOC
  \/ Amend
  \/ Cancel

Spec == Init /\ [][Next]_vars

\* Sequences of submissions to the same engine, with the accounts of ledger
\* kept.
InitLedger ==
  /\ bid_book = <<>>
  /\ ask_book = <<>>
  /\ nextId = 1
  /\ last = [op |-> "init", order |-> NoOrder, id |-> 0, quantity |-> 0,
             bid0 |-> <<>>, ask0 |-> <<>>,
             filled |-> <<>>, remaining |-> 0, raised |-> "none", ret |-> "None",
             again |-> FALSE, iterations |-> 0]
  /\ made = [kind |-> "", quantity |-> 0, price |-> 0, side |-> "",
             raised |-> "none", order |-> NoOrder]
  /\ ledger = [on |-> TRUE, accounts |-> [id \in 1..MaxOrders |-> NoAccount]]
  /\ broker = NewBroker

NextLedger ==
  \/ SubmitLimit
  \/ SubmitMarket
  \/ SubmitIOC

SpecLedger == InitLedger /\ [][NextLedger]_vars

\* ---------------------------------------------------------------- the
\* simulated broker, which owns one engine
\* `if filled_orders:` is taken for a list that is not empty; None and the
\* empty list take the else branch.
Truthy(ret, filled) == ret = "list" /\ filled # <<>>

\* The loop over the fills: the position of the fill's symbol goes up by
\* the quantity of a BUY record and down by that of a SELL record, cash the
\* other way by quantity * price.  Reading the price of a record that has
\* none raises AttributeError, after the position was updated.
RECURSIVE ApplyFills(_, _)
ApplyFills(b, fills) ==
  IF fills = <<>> THEN [broker |-> b, err |-> "none"]
  ELSE LET fill == Head(fills)
           qty_change == IF fill.side = "BUY" THEN fill.quantity
                         ELSE 0 - fill.quantity
           cash_change == IF fill.side = "BUY" THEN 0 - fill.quantity * fill.price
                          ELSE fill.quantity * fill.price
           moved == [b EXCEPT !.positions[fill.symbol] = @ + qty_change]
       IN IF fill.price = NoPrice
          THEN [broker |-> moved, err |-> "AttributeError"]
          ELSE ApplyFills([moved EXCEPT !.cash = @ + cash_change], Tail(fills))

\* submit_order while connected, r being the outcome of engine.handle_order:
\* the order is stored under the next counter with status SUBMITTED; any
\* exception of the try block ends with status REJECTED; a truthy return
\* value gives FILLED and the processing of the fills; otherwise a
\* LimitOrder is PENDING, an IOCOrder CANCELLED and any other order stays
\* SUBMITTED.
submit_order(b, order, r) ==
  LET order_id == b.order_counter + 1
      stored == [b EXCEPT !.order_counter = order_id,
                          !.submitted_orders = Append(@, order.id),
                          !.order_status = Append(@, "SUBMITTED")]
  IN IF r.err # "none"
     THEN [stored EXCEPT !.order_status[order_id] = "REJECTED"]
     ELSE IF Truthy(HandleOrderReturn(r), r.filled)
     THEN LET applied ==
                ApplyFills([stored EXCEPT !.order_status[order_id] = "FILLED",
                                          !.fills = @ \o r.filled], r.filled)
          IN IF applied.err # "none"
             THEN [applied.broker EXCEPT !.order_status[order_id] = "REJECTED"]
             ELSE applied.broker
     ELSE IF order.type = "LIMIT"
     THEN [stored EXCEPT !.order_status[order_id] = "PENDING"]
     ELSE IF order.type = "IOC"
     THEN [stored EXCEPT !.order_status[order_id] = "CANCELLED"]
     ELSE stored

BrokerSubmitted(order, r) ==
  /\ Handled(order, r)
  /\ broker' = submit_order(broker, order, r)

\* The caller creates the order and hands it to submit_order, which raises
\* ConnectionError before anything else when the broker is not connected:
\* the order has reached neither the broker's maps nor the engine, and its
\* identifier is free for the caller's next order.
BrokerSubmit(order) ==
  IF broker.connected
  THEN BrokerSubmitted(order, handle_order(order, bid_book, ask_book))
  ELSE /\ last' = Call("submit_order", NoOrder, 0, 0, <<>>, 0,
                       "ConnectionError", "raised")
       /\ UNCHANGED <<bid_book, ask_book, nextId, made, ledger, broker>>

BrokerSubmitLimit ==
  /\ nextId <= MaxOrders
  /\ \E s \in Symbols, q \in Quantities, p \in Prices, side \in {"BUY", "SELL"} :
       BrokerSubmit(LimitOrder(nextId, s, q, p, side, nextId))

BrokerSubmitMarket ==
  /\ nextId <= MaxOrders
  /\ \E s \in Symbols, q \in Quantities, side \in {"BUY", "SELL"} :
       BrokerSubmit(MarketOrder(nextId, s, q, side, nextId))

BrokerSubmitIOC ==
  /\ nextId <= MaxOrders
  /\ \E s \in Symbols, q \in Quantities, p \in Prices, side \in {"BUY", "SELL"} :
       BrokerSubmit(IOCOrder(nextId, s, q, p, side, nextId))

Connect ==
  /\ broker' = [broker EXCEPT !.connected = TRUE]
  /\ last' = Call("connect", NoOrder, 0, 0, <<>>, 0, "none", "True")
  /\ UNCHANGED <<bid_book, ask_book, nextId, made, ledger>>

Disconnect ==
  /\ broker' = [broker EXCEPT !.connected = FALSE]
  /\ last' = Call("disconnect", NoOrder, 0, 0, <<>>, 0, "none", "True")
  /\ UNCHANGED <<bid_book, ask_book, nextId, made, ledger>>

\* The broker's cancel_order: False for an order id it never issued;
\* otherwise the engine cancels the stored order and, when that returned
\* True, the status becomes CANCELLED.
BrokerCancel ==
  \E k \in 1..MaxOrders :
    IF k > broker.order_counter
    THEN /\ last' = Call("cancel_order", NoOrder, 0, 0, <<>>, 0, "none", "False")
         /\ UNCHANGED <<bid_book, ask_book, nextId, made, ledger, broker>>
    ELSE LET id == broker.submitted_orders[k]
             r == cancel_order(id, bid_book, ask_book)
         IN /\ bid_book' = r.bid
            /\ ask_book' = r.ask
            /\ broker' = IF r.ret = "True"
                         THEN [broker EXCEPT !.order_status[k] = "CANCELLED"]
                         ELSE broker
            /\ last' = Call("cancel_order", NoOrder, id, 0, <<>>, 0, "none", r.ret)
            /\ UNCHANGED <<nextId, made, ledger>>

\* The broker's modify_order: False for an order id it never issued;
\* otherwise engine.amend_quantity on the stored order, True when it
\* returned and False when it raised.
BrokerModify ==
  \E k \in 1..MaxOrders, q \in 0..MaxQty :
    IF k > broker.order_counter
    THEN /\ last' = Call("modify_order", NoOrder, 0, q, <<>>, 0, "none", "False")
         /\ UNCHANGED <<bid_book, ask_book, nextId, made, ledger, broker>>
    ELSE LET id == broker.submitted_orders[k]
             r == amend_quantity(id, q, bid_book, ask_book)
         IN /\ bid_book' = r.bid
            /\ ask_book' = r.ask
            /\ last' = Call("modify_order", NoOrder, id, q, <<>>, 0, "none",
                            IF r.err = "none" THEN "True" ELSE "False")
            /\ UNCHANGED <<nextId, made, ledger, broker>>

NextBroker ==
  \/ Connect
  \/ Disconnect
  \/ BrokerSubmitLimit
  \/ BrokerSubmitMarket
  \/ BrokerSubmitIOC
  \/ BrokerCancel
  \/ BrokerModify

SpecBroker == Init /\ [][NextBroker]_vars

\* ---------------------------------------------------------------- callers
\* that hand the engine an object no constructor validated
\* The engine is given objects whose side or type was not what a constructor
\* leaves: side None, a side that is neither member of OrderSide (say the
\* string "BUY"), a type outside OrderType, or a FilledOrder.
WithSide(order, side) == [order EXCEPT !.side = side]

WithType(order, type) == [order EXCEPT !.type = type]

\* An order of one of the three classes, built with side BUY.
OrderOfKind(kind, id, symbol, quantity, price, time) ==
  CASE kind = "LIMIT" -> LimitOrder(id, symbol, quantity, price, "BUY", time)
    [] kind = "IOC" -> IOCOrder(id, symbol, quantity, price, "BUY", time)
    [] OTHER -> MarketOrder(id, symbol, quantity, "BUY", time)

\* A Limit, IOC or Market order whose side attribute was then set to None.
SubmitSideNone ==
  /\ nextId <= MaxOrders
  /\ \E kind \in {"LIMIT", "IOC", "MARKET"}, s \in Symbols, q \in Quantities,
        p \in Prices :
       Submit(WithSide(OrderOfKind(kind, nextId, s, q, p, nextId), "NONE"))

\* Likewise with a side that is neither None nor a member of OrderSide.
SubmitSideOther ==
  /\ nextId <= MaxOrders
  /\ \E kind \in {"LIMIT", "IOC", "MARKET"}, s \in Symbols, q \in Quantities,
        p \in Prices :
       Submit(WithSide(OrderOfKind(kind, nextId, s, q, p, nextId), "OTHER"))

\* A LimitOrder whose type attribute was set to a value outside OrderType.
SubmitTypeOther ==
  /\ nextId <= MaxOrders
  /\ \E s \in Symbols, q \in Quantities, p \in Prices, side \in {"BUY", "SELL"} :
       Submit(WithType(LimitOrder(nextId, s, q, p, side, nextId), "OTHER"))

\* A FilledOrder, the fourth order class, which has no type attribute.
SubmitFilled ==
  /\ nextId <= MaxOrders
  /\ \E s \in Symbols, q \in Quantities, p \in Prices, side \in {"BUY", "SELL"} :
       Submit(FilledOrder(nextId, s, q, p, side, nextId))

NextUnvalidated ==
  \/ SubmitLimit
  \/ SubmitMarket
  \/ SubmitIOC
  \/ Amend
  \/ Cancel
  \/ SubmitSideNone
  \/ SubmitSideOther
  \/ SubmitTypeOther
  \/ SubmitFilled

SpecUnvalidated == Init /\ [][NextUnvalidated]_vars

\* ---------------------------------------------------------------- constructors
\* The constructors applied to arguments inside and outside their valid
\* ranges; made records the arguments and the outcome of the latest call.
QuantityArgs == (0 - 1)..MaxQty

PriceArgs == (0 - 1)..MaxPrice

SideArgs == {"BUY", "SELL", "NONE", "OTHER"}

\* What made holds after a constructor call with these arguments.
Made(kind, id, symbol, quantity, price, side) ==
  LET r == New(kind, id, symbol, quantity, price, side, id) IN
  [kind |-> kind, quantity |-> quantity, price |-> price, side |-> side,
   raised |-> r.raised, order |-> r.order]

ConstructLimit ==
  /\ \E s \in Symbols, q \in QuantityArgs, p \in PriceArgs, side \in SideArgs :
       made' = Made("LIMIT", 1, s, q, p, side)
  /\ UNCHANGED <<bid_book, ask_book, nextId, last, ledger, broker>>

ConstructMarket ==
  /\ \E s \in Symbols, q \in QuantityArgs, side \in SideArgs :
       made' = Made("MARKET", 1, s, q, NoPrice, side)
  /\ UNCHANGED <<bid_book, ask_book, nextId, last, ledger, broker>>

ConstructIOC ==
  /\ \E s \in Symbols, q \in QuantityArgs, p \in PriceArgs, side \in SideArgs :
       made' = Made("IOC", 1, s, q, p, side)
  /\ UNCHANGED <<bid_book, ask_book, nextId, last, ledger, broker>>

ConstructFilled ==
  /\ \E s \in Symbols, q \in QuantityArgs, p \in PriceArgs, side \in SideArgs :
       made' = Made("FILLED", 1, s, q, p, side)
  /\ UNCHANGED <<bid_book, ask_book, nextId, last, ledger, broker>>

NextConstruct ==
  \/ ConstructLimit
  \/ ConstructMarket
  \/ ConstructIOC
  \/ ConstructFilled

SpecConstruct == Init /\ [][NextConstruct]_vars

\* ================================================================ claims
\* Vocabulary shared by the properties below.
IsSubmit == last.op = "submit"

Priced(r) == r.price # NoPrice

Present(r, book) == \E j \in 1..Len(book) : book[j] = r

RECURSIVE TotalQuantity(_)
TotalQuantity(s) ==
  IF s = <<>> THEN 0 ELSE Head(s).quantity + TotalQuantity(Tail(s))

\* The opposite and the own side of the last submitted order, before and
\* after the call.
Opposite0 == IF last.order.side = "BUY" THEN last.ask0 ELSE last.bid0

OppositeNow == IF last.order.side = "BUY" THEN ask_book ELSE bid_book

Own0 == IF last.order.side = "BUY" THEN last.bid0 ELSE last.ask0

OwnNow == IF last.order.side = "BUY" THEN bid_book ELSE ask_book

\* ---------------------------------------------------------------- C1
\* C1: in every reachable state the bid side is sorted by price descending
\* and, among entries of equal price, by arrival time ascending.
C1_BidSorted ==
  \A i, j \in 1..Len(bid_book) :
    (i < j /\ Priced(bid_book[i]) /\ Priced(bid_book[j])) =>
      \/ bid_book[i].price > bid_book[j].price
      \/ /\ bid_book[i].price = bid_book[j].price
         /\ bid_book[i].time <= bid_book[j].time

\* ---------------------------------------------------------------- C2
\* C2: in every reachable state the ask side is sorted by price ascending
\* and, among entries of equal price, by arrival time ascending.
C2_AskSorted ==
  \A i, j \in 1..Len(ask_book) :
    (i < j /\ Priced(ask_book[i]) /\ Priced(ask_book[j])) =>
      \/ ask_book[i].price < ask_book[j].price
      \/ /\ ask_book[i].price = ask_book[j].price
         /\ ask_book[i].time <= ask_book[j].time

\* ---------------------------------------------------------------- C3
\* C3: every order resting in the bid or ask side has quantity > 0; an order
\* whose quantity reaches 0, by a match or by an amend, is not left in a book.
C3_RestingQuantityPositive ==
  /\ \A i \in 1..Len(bid_book) : bid_book[i].quantity > 0
  /\ \A i \in 1..Len(ask_book) : ask_book[i].quantity > 0

\* ---------------------------------------------------------------- C4
\* C4: a Limit or IOC BUY with limit price P leaves every resting ask of its
\* symbol priced above P exactly as it was, and when an ask of its symbol
\* priced at or below P rests, the order does execute against the book (some
\* such ask is consumed or reduced).
C4_BuyExecutesOnlyAtOrBelowLimit ==
  (IsSubmit /\ last.order.type \in {"LIMIT", "IOC"} /\ last.order.side = "BUY") =>
    /\ \A i \in 1..Len(last.ask0) :
         LET r == last.ask0[i] IN
         (r.symbol = last.order.symbol /\ Priced(r) /\ r.price > last.order.price)
           => Present(r, ask_book)
    /\ (\E i \in 1..Len(last.ask0) :
          LET r == last.ask0[i] IN
          r.symbol = last.order.symbol /\ Priced(r) /\ r.price <= last.order.price)
       => (\E i \in 1..Len(last.ask0) :
             LET r == last.ask0[i] IN
             /\ r.symbol = last.order.symbol /\ Priced(r)
             /\ r.price <= last.order.price
             /\ ~Present(r, ask_book))

\* ---------------------------------------------------------------- C5
\* C5: a Limit or IOC SELL with limit price P executes only against resting
\* bids of its symbol priced at or above P (every resting leg it returns is
\* such a bid), and never consumes or reduces a resting bid of its symbol
\* priced below P: every such bid is in the bid side after the call with the
\* quantity it had before.
C5_SellExecutesOnlyAtOrAboveLimit ==
  (IsSubmit /\ last.order.type \in {"LIMIT", "IOC"} /\ last.order.side = "SELL") =>
    /\ \A i \in 1..Len(last.bid0) :
         LET r == last.bid0[i] IN
         (r.symbol = last.order.symbol /\ Priced(r) /\ r.price < last.order.price)
           => Present(r, bid_book)
    /\ \A k \in 1..Len(last.filled) :
         last.filled[k].leg = "resting" =>
           /\ last.filled[k].symbol = last.order.symbol
           /\ last.filled[k].against >= last.order.price
           /\ \E i \in 1..Len(last.bid0) : last.bid0[i].id = last.filled[k].id

\* Witness of C5: a Limit or IOC SELL executed against a bid at or above its
\* price while a bid of the same symbol below its price was resting.
C5_Witness ==
  /\ IsSubmit /\ last.order.type \in {"LIMIT", "IOC"} /\ last.order.side = "SELL"
  /\ last.raised = "none"
  /\ Len(last.filled) > 0
  /\ \E i \in 1..Len(last.bid0) :
       /\ last.bid0[i].symbol = last.order.symbol
       /\ Priced(last.bid0[i])
       /\ last.bid0[i].price < last.order.price
       /\ Present(last.bid0[i], bid_book)

\* ---------------------------------------------------------------- C6
\* C6: price-time priority.  Whenever a submit consumes or reduces a resting
\* order R, no other resting order of R's symbol on R's side with a strictly
\* better price, or the same price and an earlier arrival time, is left in
\* the book with unexecuted quantity.
BetterPrice(a, b) ==
  IF last.order.side = "BUY" THEN a.price < b.price ELSE a.price > b.price

C6_PriceTimePriority ==
  IsSubmit =>
    \A i, j \in 1..Len(Opposite0) :
      LET R == Opposite0[i]
          other == Opposite0[j]
      IN (/\ i # j
          /\ Priced(R) /\ Priced(other)
          /\ R.symbol = last.order.symbol /\ other.symbol = R.symbol
          /\ ~Present(R, OppositeNow)
          /\ \/ BetterPrice(other, R)
             \/ other.price = R.price /\ other.time < R.time)
         => ~\E k \in 1..Len(OppositeNow) :
               OppositeNow[k].id = other.id /\ OppositeNow[k].quantity > 0

\* ---------------------------------------------------------------- C7
\* C7: every fill record returned by a submission, for the incoming leg as
\* for the resting leg, carries the price of the resting order it was
\* matched against, and never a missing price.
C7_FillPriceIsRestingPrice ==
  (IsSubmit /\ last.raised = "none") =>
    \A i \in 1..Len(last.filled) :
      /\ last.filled[i].price # NoPrice
      /\ last.filled[i].price = last.filled[i].against

\* ---------------------------------------------------------------- C8
\* C8: conservation.  For one crossing pass of a submitted order, the quantity
\* removed from the opposite side plus the quantity remaining in the incoming
\* order (for a Limit order: the quantity added to its own side) equals the
\* order's original quantity.
C8_Conservation ==
  IsSubmit =>
    LET removed == TotalQuantity(Opposite0) - TotalQuantity(OppositeNow)
        added == TotalQuantity(OwnNow) - TotalQuantity(Own0)
    IN /\ removed + last.remaining = last.order.quantity
       /\ last.order.type = "LIMIT" => removed + added = last.order.quantity

\* ---------------------------------------------------------------- C9
\* C9: after a Market order is submitted it is in neither side of the book.
C9_MarketNeverPosted ==
  (IsSubmit /\ last.order.type = "MARKET") =>
    /\ last.order.id \notin Ids(bid_book)
    /\ last.order.id \notin Ids(ask_book)

\* ---------------------------------------------------------------- C10
\* C10: after an IOC order is submitted it is in neither side of the book,
\* and the number of entries on its own side is what it was before.
C10_IOCNeverPosted ==
  (IsSubmit /\ last.order.type = "IOC") =>
    /\ last.order.id \notin Ids(bid_book)
    /\ last.order.id \notin Ids(ask_book)
    /\ Len(OwnNow) = Len(Own0)

\* Witness of C10: an IOC order executed in part and kept a remainder, with
\* orders resting on its own side.
C10_Witness ==
  /\ IsSubmit /\ last.order.type = "IOC"
  /\ last.raised = "none"
  /\ Len(last.filled) > 0
  /\ last.remaining > 0
  /\ Len(Own0) > 0

\* ---------------------------------------------------------------- C11
\* C11: after a Limit order is submitted and not fully matched, it rests
\* exactly once, on its own side and not on the other, with its identifier,
\* price and timestamp and with its original quantity minus the quantity
\* taken out of the opposite side; a fully matched Limit order rests on
\* neither side.
Matched == TotalQuantity(Opposite0) - TotalQuantity(OppositeNow)

C11_LimitRemainderRests ==
  (IsSubmit /\ last.order.type = "LIMIT") =>
    IF last.remaining > 0 THEN
      /\ Cardinality({i \in 1..Len(OwnNow) : OwnNow[i].id = last.order.id}) = 1
      /\ Present([last.order EXCEPT !.quantity = last.order.quantity - Matched],
                 OwnNow)
      /\ last.order.id \notin Ids(OppositeNow)
    ELSE
      /\ last.order.id \notin Ids(bid_book)
      /\ last.order.id \notin Ids(ask_book)

\* ---------------------------------------------------------------- C12
\* C12: handle_order returns to its caller the list of fill records the
\* kind-specific handler produced (an empty list when nothing crossed).
C12_SubmitReturnsFills ==
  (IsSubmit /\ last.raised = "none") => last.ret = "list"

\* ---------------------------------------------------------------- C13
\* C13: for an order resting on either side with quantity c, amend(id, q)
\* succeeds (no exception, quantity set to q) if and only if q < c; for
\* q >= c it raises NewQuantityNotSmaller and leaves both sides unchanged.
IsAmend == last.op = "amend"

Resting0(id) == id \in Ids(last.bid0) \/ id \in Ids(last.ask0)

\* The entry with the identifier before the call, and its side.
Entry0(id) ==
  IF id \in Ids(last.bid0)
  THEN last.bid0[CHOOSE i \in 1..Len(last.bid0) : last.bid0[i].id = id]
  ELSE last.ask0[CHOOSE i \in 1..Len(last.ask0) : last.ask0[i].id = id]

BooksUnchanged == bid_book = last.bid0 /\ ask_book = last.ask0

\* Both sides as before the call, but for the quantity of the entry with
\* the identifier, which is q.
AmendedInPlace(id, q) ==
  /\ Len(bid_book) = Len(last.bid0)
  /\ Len(ask_book) = Len(last.ask0)
  /\ \A i \in 1..Len(last.bid0) :
       bid_book[i] = IF last.bid0[i].id = id
                     THEN [last.bid0[i] EXCEPT !.quantity = q] ELSE last.bid0[i]
  /\ \A i \in 1..Len(last.ask0) :
       ask_book[i] = IF last.ask0[i].id = id
                     THEN [last.ask0[i] EXCEPT !.quantity = q] ELSE last.ask0[i]

C13_AmendMonotonicity ==
  (IsAmend /\ Resting0(last.id)) =>
    IF last.quantity < Entry0(last.id).quantity
    THEN last.raised = "none" /\ AmendedInPlace(last.id, last.quantity)
    ELSE last.raised = "NewQuantityNotSmaller" /\ BooksUnchanged

\* ---------------------------------------------------------------- C14
\* C14: amend(id, q) with q below the current quantity of an order resting
\* on the bid or on the ask side does not raise and sets the quantity to q
\* in place: same position, every other entry of both sides unchanged.
C14_AmendInPlace ==
  (IsAmend /\ Resting0(last.id) /\ last.quantity < Entry0(last.id).quantity) =>
    /\ last.raised = "none"
    /\ AmendedInPlace(last.id, last.quantity)

\* ---------------------------------------------------------------- C15
\* C15: amend(id, q) for an identifier resting on neither side raises
\* nothing, reports not-found (False) and leaves both sides unchanged.
C15_AmendNotFound ==
  (IsAmend /\ ~Resting0(last.id)) =>
    /\ last.raised = "none"
    /\ last.ret = "False"
    /\ BooksUnchanged

\* ---------------------------------------------------------------- C16
\* C16: amend_quantity returns True when the order was found and amended
\* and False when no order with the identifier rests.
C16_AmendReturnsFlag ==
  (IsAmend /\ last.raised = "none") =>
    IF Resting0(last.id) THEN last.ret = "True" ELSE last.ret = "False"

\* ---------------------------------------------------------------- C17
\* C17: cancel(id) of a resting identifier removes exactly that entry from
\* the side holding it and returns True, every other entry of both sides
\* staying as it was and in the same relative order; for an identifier that
\* does not rest it returns False and changes nothing.
IsCancel == last.op = "cancel"

Without(s, id) == SelectSeq(s, LAMBDA o : o.id # id)

C17_CancelRemovesExactlyOne ==
  IsCancel =>
    IF Resting0(last.id) THEN
      /\ last.ret = "True"
      /\ bid_book = Without(last.bid0, last.id)
      /\ ask_book = Without(last.ask0, last.id)
      /\ Len(bid_book) + Len(ask_book) = Len(last.bid0) + Len(last.ask0) - 1
    ELSE
      /\ last.ret = "False"
      /\ BooksUnchanged

\* Witness of C17: an entry with entries before and after it on its side
\* was cancelled.
C17_Witness ==
  /\ IsCancel /\ last.ret = "True"
  /\ \/ \E i \in 2..(Len(last.bid0) - 1) : last.bid0[i].id = last.id
     \/ \E i \in 2..(Len(last.ask0) - 1) : last.ask0[i].id = last.id

\* ---------------------------------------------------------------- C18
\* C18: cancelling a resting identifier returns True, and cancelling the
\* same identifier again directly afterwards returns False and changes
\* nothing.
C18_CancelTwice ==
  IsCancel =>
    /\ Resting0(last.id) => last.ret = "True"
    /\ last.again => (last.ret = "False" /\ BooksUnchanged)

\* Witness of C18: the second of two cancels of an identifier that rested,
\* with other orders still in the book.
C18_Witness ==
  /\ IsCancel /\ last.again
  /\ Len(bid_book) + Len(ask_book) > 0

\* ---------------------------------------------------------------- C19
\* C19: with a single resting ask r (quantity R, price A), a Limit BUY of
\* the same symbol with quantity Q > R and limit P >= A returns the fills
\* [resting leg: R at A, incoming leg: R at A], leaves the ask side without
\* r, and rests on the bid side with quantity Q - R at price P.
FillIs(f, id, leg, quantity, price) ==
  /\ f.id = id /\ f.leg = leg /\ f.quantity = quantity /\ f.price = price

C19_ScenarioB ==
  (/\ IsSubmit /\ last.order.type = "LIMIT" /\ last.order.side = "BUY"
   /\ Len(last.ask0) = 1
   /\ last.ask0[1].type = "LIMIT"
   /\ last.ask0[1].symbol = last.order.symbol
   /\ last.order.quantity > last.ask0[1].quantity
   /\ last.order.price >= last.ask0[1].price) =>
    LET r == last.ask0[1] IN
    /\ last.raised = "none"
    /\ Len(last.filled) = 2
    /\ FillIs(last.filled[1], r.id, "resting", r.quantity, r.price)
    /\ FillIs(last.filled[2], last.order.id, "incoming", r.quantity, r.price)
    /\ ask_book = <<>>
    /\ Present([last.order EXCEPT !.quantity = last.order.quantity - r.quantity],
               bid_book)

\* ---------------------------------------------------------------- C20
\* C20: with a bid r (quantity R, price B) at the top of the bid side, a
\* Market SELL of the same symbol with quantity Q < R returns the fills
\* [resting leg: Q at B, incoming leg: Q at B], leaves r resting with
\* quantity R - Q, and the market order is in neither side.
C20_ScenarioC ==
  (/\ IsSubmit /\ last.order.type = "MARKET" /\ last.order.side = "SELL"
   /\ Len(last.bid0) >= 1
   /\ last.bid0[1].type = "LIMIT"
   /\ last.bid0[1].symbol = last.order.symbol
   /\ last.order.quantity < last.bid0[1].quantity) =>
    LET r == last.bid0[1] IN
    /\ last.raised = "none"
    /\ Len(last.filled) = 2
    /\ FillIs(last.filled[1], r.id, "resting", last.order.quantity, r.price)
    /\ FillIs(last.filled[2], last.order.id, "incoming", last.order.quantity, r.price)
    /\ Present([r EXCEPT !.quantity = r.quantity - last.order.quantity], bid_book)
    /\ last.order.id \notin Ids(bid_book)
    /\ last.order.id \notin Ids(ask_book)

\* ---------------------------------------------------------------- C21
\* C21: handle_order of an order whose kind is none of LIMIT, MARKET, IOC
\* raises UndefinedOrderType and leaves both sides of the book unchanged.
OrderTypes == {"LIMIT", "MARKET", "IOC"}

C21_UnknownKindRejected ==
  (IsSubmit /\ last.order.type \notin OrderTypes) =>
    /\ last.raised = "UndefinedOrderType"
    /\ BooksUnchanged

\* ---------------------------------------------------------------- C22
\* C22: submitting a Limit, Market or IOC order whose side is None raises
\* UndefinedOrderSide before any book access: both sides are as before the
\* call and no fill is produced.
C22_NoneSideRejected ==
  (IsSubmit /\ last.order.type \in OrderTypes /\ last.order.side = "NONE") =>
    /\ last.raised = "UndefinedOrderSide"
    /\ last.filled = <<>>
    /\ BooksUnchanged

\* Witness of C22: a Market order with side None was submitted while orders
\* rested on both sides, and UndefinedOrderSide was raised.
C22_Witness ==
  /\ IsSubmit /\ last.order.type = "MARKET" /\ last.order.side = "NONE"
  /\ last.raised = "UndefinedOrderSide"
  /\ Len(last.bid0) > 0 /\ Len(last.ask0) > 0

\* ---------------------------------------------------------------- C23
\* C23: submitting an order whose side is any value outside {BUY, SELL}
\* raises UndefinedOrderSide; such an order is never accepted silently with
\* an empty fill list.
C23_AnyUndefinedSideRejected ==
  (IsSubmit /\ last.order.type \in OrderTypes
            /\ last.order.side \notin {"BUY", "SELL"}) =>
    last.raised = "UndefinedOrderSide"

\* ---------------------------------------------------------------- C24
\* C24: constructing a LimitOrder, MarketOrder, IOCOrder or FilledOrder with
\* quantity <= 0 raises NonPositiveQuantity and creates no order; with
\* quantity > 0 NonPositiveQuantity is not raised.
IsConstruct == made.kind # ""

C24_QuantityChecked ==
  IsConstruct =>
    IF made.quantity <= 0
    THEN made.raised = "NonPositiveQuantity" /\ made.order = NoOrder
    ELSE made.raised # "NonPositiveQuantity"

\* Witness of C24: a FilledOrder constructor call with quantity 0, a price
\* of 0 and side None raised NonPositiveQuantity.
C24_Witness ==
  /\ made.kind = "FILLED" /\ made.quantity = 0 /\ made.price = 0
  /\ made.side = "NONE"
  /\ made.raised = "NonPositiveQuantity"

\* ---------------------------------------------------------------- C25
\* C25: constructing a LimitOrder or IOCOrder with a positive quantity, a
\* side in {BUY, SELL} and price <= 0 raises NonPositivePrice; with a positive
\* quantity and a side outside {BUY, SELL} it raises InvalidSide; a call
\* raises nothing exactly when all three arguments are valid, and what it
\* raises is fixed by the arguments: the first violated of quantity, side,
\* price.
FirstViolation(quantity, price, side) ==
  CASE quantity <= 0 -> "NonPositiveQuantity"
    [] quantity > 0 /\ side \notin {"BUY", "SELL"} -> "InvalidSide"
    [] quantity > 0 /\ side \in {"BUY", "SELL"} /\ price <= 0 -> "NonPositivePrice"
    [] OTHER -> "none"

C25_PriceAndSideChecked ==
  (IsConstruct /\ made.kind \in {"LIMIT", "IOC"}) =>
    /\ (made.quantity > 0 /\ made.side \in {"BUY", "SELL"} /\ made.price <= 0)
         => made.raised = "NonPositivePrice"
    /\ (made.quantity > 0 /\ made.side \notin {"BUY", "SELL"})
         => made.raised = "InvalidSide"
    /\ made.raised = FirstViolation(made.quantity, made.price, made.side)
    /\ (made.raised = "none") = (made.order # NoOrder)

\* Witness of C25: an IOCOrder constructor call with a positive quantity, a
\* side outside {BUY, SELL} and a price of 0 raised InvalidSide.
C25_Witness ==
  /\ made.kind = "IOC" /\ made.quantity > 0 /\ made.price = 0
  /\ made.side = "OTHER"
  /\ made.raised = "InvalidSide"

\* ---------------------------------------------------------------- C26
\* C26: with every order created with a fresh identifier and submitted
\* once, each identifier occurs at most once in the bid and ask sides taken
\* together, in every reachable state.
BothBooks == bid_book \o ask_book

C26_IdentifiersUnique ==
  \A i, j \in 1..Len(BothBooks) :
    BothBooks[i].id = BothBooks[j].id => i = j

\* Witness of C26: a submit has just partially filled a resting order, which
\* still rests with its reduced quantity while the other side holds an order.
C26_Witness ==
  /\ IsSubmit /\ last.raised = "none"
  /\ Len(bid_book) >= 1 /\ Len(ask_book) >= 1
  /\ \E i \in 1..Len(last.bid0 \o last.ask0), j \in 1..Len(BothBooks) :
       /\ (last.bid0 \o last.ask0)[i].id = BothBooks[j].id
       /\ (last.bid0 \o last.ask0)[i].quantity > BothBooks[j].quantity

\* ---------------------------------------------------------------- C27
\* C27: every handle_order, amend_quantity or cancel_order call on validly
\* constructed orders either returns normally or raises having left both
\* sides of the book exactly as before.
C27_AllOrNothing ==
  (last.raised # "none") => BooksUnchanged

\* ---------------------------------------------------------------- C28
\* C28: in every reachable state the bid side holds only BUY orders of
\* kind LIMIT and the ask side only SELL orders of kind LIMIT.
C28_BooksHoldOnlyLimitOrdersOfTheirSide ==
  /\ \A i \in 1..Len(bid_book) :
       bid_book[i].side = "BUY" /\ bid_book[i].type = "LIMIT"
  /\ \A i \in 1..Len(ask_book) :
       ask_book[i].side = "SELL" /\ ask_book[i].type = "LIMIT"

\* ---------------------------------------------------------------- C29
\* C29: when a submit consumes a resting order of quantity R whole and the
\* incoming order has quantity left afterwards (incoming > resting), the
\* returned fills hold exactly one record for that resting order, with
\* quantity R at the resting price, and the entry is gone from the book.
FillsOf(id) == {k \in 1..Len(last.filled) : last.filled[k].id = id}

C29_RestingLegFullyConsumed ==
  (IsSubmit /\ last.raised = "none" /\ last.remaining > 0) =>
    \A i \in 1..Len(Opposite0) :
      LET r == Opposite0[i] IN
      (r.type = "LIMIT" /\ r.id \notin Ids(OppositeNow)) =>
        /\ Cardinality(FillsOf(r.id)) = 1
        /\ \A k \in FillsOf(r.id) :
             FillIs(last.filled[k], r.id, "resting", r.quantity, r.price)

\* ---------------------------------------------------------------- C30
\* C30: when a submit with remaining quantity Q meets a resting order of
\* quantity R > Q (incoming < resting), the returned fills hold one record
\* for the incoming order and one for the resting order, both with quantity
\* Q at the resting price; the resting entry stays at its position with
\* quantity R - Q, the incoming order is left with quantity 0 and no other
\* resting order is reduced after it.
SeqIds(s) == [k \in 1..Len(s) |-> s[k].id]

Survivors0 == SelectSeq(Opposite0, LAMBDA o : o.id \in Ids(OppositeNow))

C30_IncomingLegFullyConsumed ==
  (IsSubmit /\ last.raised = "none") =>
    \A i \in 1..Len(Opposite0), j \in 1..Len(OppositeNow) :
      LET r == Opposite0[i]
          Q == r.quantity - OppositeNow[j].quantity
      IN (r.type = "LIMIT" /\ OppositeNow[j].id = r.id /\ Q > 0) =>
           /\ \E k \in FillsOf(last.order.id) :
                FillIs(last.filled[k], last.order.id, "incoming", Q, r.price)
           /\ \E k \in FillsOf(r.id) :
                FillIs(last.filled[k], r.id, "resting", Q, r.price)
           /\ OppositeNow[j] = [r EXCEPT !.quantity = r.quantity - Q]
           /\ SeqIds(OppositeNow) = SeqIds(Survivors0)
           /\ last.remaining = 0
           /\ \A i2 \in (i + 1)..Len(Opposite0) : Present(Opposite0[i2], OppositeNow)

\* ---------------------------------------------------------------- C31
\* C31: when a submit ends on a resting order whose quantity Q equals the
\* incoming order's remaining quantity (incoming == resting), the returned
\* fills hold one record for each leg, both with quantity Q at the resting
\* price; the resting entry is gone, the incoming order is left with
\* quantity 0 and no entry behind it is touched.
\* The call returned with the incoming order used up and no resting entry
\* reduced: its last match was of equal quantities.
Reduced(r) ==
  \E j \in 1..Len(OppositeNow) :
    OppositeNow[j].id = r.id /\ OppositeNow[j].quantity < r.quantity

EndedOnEqualMatch ==
  /\ IsSubmit /\ last.raised = "none" /\ last.remaining = 0
  /\ \A i \in 1..Len(Opposite0) : ~Reduced(Opposite0[i])
  /\ \E i \in 1..Len(Opposite0) : Opposite0[i].id \notin Ids(OppositeNow)

\* The last entry of the opposite side that the call removed.
LastConsumed ==
  CHOOSE i \in 1..Len(Opposite0) :
    /\ Opposite0[i].id \notin Ids(OppositeNow)
    /\ \A k \in (i + 1)..Len(Opposite0) : Opposite0[k].id \in Ids(OppositeNow)

C31_BothLegsFullyConsumed ==
  (EndedOnEqualMatch /\ Opposite0[LastConsumed].type = "LIMIT") =>
    LET r == Opposite0[LastConsumed] IN
    /\ \E k \in FillsOf(last.order.id) :
         FillIs(last.filled[k], last.order.id, "incoming", r.quantity, r.price)
    /\ \E k \in FillsOf(r.id) :
         FillIs(last.filled[k], r.id, "resting", r.quantity, r.price)
    /\ Cardinality(FillsOf(r.id)) = 1
    /\ Cardinality(FillsOf(last.order.id)) = 1
    /\ \A k \in (LastConsumed + 1)..Len(Opposite0) :
         Present(Opposite0[k], OppositeNow)

\* ---------------------------------------------------------------- C32
\* C32: after any submit, every entry of the opposite side that was not
\* matched is still in the opposite side with unchanged fields, and the
\* unmatched entries are in their original relative order.
\* An entry that the call neither removed nor reduced nor returned in a fill.
Unmatched(o) ==
  /\ o.symbol # last.order.symbol \/ FillsOf(o.id) = {}
  /\ o.id # last.order.id

C32_UnmatchedEntriesKept ==
  (IsSubmit /\ last.raised = "none") =>
    SelectSeq(Opposite0, Unmatched) = SelectSeq(OppositeNow, Unmatched)

\* ---------------------------------------------------------------- C33
\* C33: while an order rests in the book, no operation changes its
\* identifier, symbol, side, price or timestamp, and none increases its
\* quantity.
SameButQuantity(a, b) ==
  /\ a.id = b.id /\ a.symbol = b.symbol /\ a.side = b.side
  /\ a.price = b.price /\ a.time = b.time

Books0 == last.bid0 \o last.ask0

C33_RestingOrderOnlyShrinks ==
  \A i \in 1..Len(Books0), j \in 1..Len(BothBooks) :
    Books0[i].id = BothBooks[j].id =>
      /\ SameButQuantity(Books0[i], BothBooks[j])
      /\ BothBooks[j].quantity <= Books0[i].quantity
      /\ (\E k \in 1..Len(last.bid0) : last.bid0[k].id = Books0[i].id)
           = (\E k \in 1..Len(bid_book) : bid_book[k].id = Books0[i].id)

\* Witness of C33: an amend has just lowered the quantity of a resting bid
\* to a positive quantity, and the bid still rests.
C33_Witness ==
  /\ IsAmend /\ last.raised = "none"
  /\ \E i \in 1..Len(last.bid0), j \in 1..Len(bid_book) :
       /\ last.bid0[i].id = bid_book[j].id
       /\ bid_book[j].quantity < last.bid0[i].quantity
       /\ bid_book[j].quantity > 0

\* ---------------------------------------------------------------- C35
\* C35: a submit for symbol S returns no fill for a resting order of
\* another symbol and changes neither the quantity nor the presence in the
\* book of any such order.
OtherSymbol(o) == o.symbol # last.order.symbol

\* The entries of the other symbols are the same before and after.
SameOtherSymbolEntries(before, after) ==
  /\ \A i \in 1..Len(before) : OtherSymbol(before[i]) => Present(before[i], after)
  /\ \A j \in 1..Len(after) : OtherSymbol(after[j]) => Present(after[j], before)

C35_SymbolIsolation ==
  IsSubmit =>
    /\ SameOtherSymbolEntries(last.bid0, bid_book)
    /\ SameOtherSymbolEntries(last.ask0, ask_book)
    /\ \A k \in 1..Len(last.filled) : last.filled[k].symbol = last.order.symbol

\* ---------------------------------------------------------------- C36
\* C36: after a Market order has been processed, either its whole quantity
\* has been executed or no other order of its symbol is left on the opposite
\* side.
C36_MarketExhaustive ==
  (IsSubmit /\ last.order.type = "MARKET") =>
    \/ last.remaining = 0
    \/ \A j \in 1..Len(OppositeNow) :
         OppositeNow[j].symbol = last.order.symbol =>
           OppositeNow[j].id = last.order.id

\* ---------------------------------------------------------------- C37
\* C37: in every reachable state there is no resting bid and resting ask
\* of the same symbol with bid price >= ask price.
C37_BookNeverCrossed ==
  \A i \in 1..Len(bid_book), j \in 1..Len(ask_book) :
    (/\ bid_book[i].symbol = ask_book[j].symbol
     /\ Priced(bid_book[i]) /\ Priced(ask_book[j])
     /\ bid_book[i].side = "BUY" /\ ask_book[j].side = "SELL") =>
      bid_book[i].price < ask_book[j].price

\* ---------------------------------------------------------------- C34
\* C34: over any sequence of operations, the total quantity matched
\* against an order while it rests never exceeds the quantity it entered the
\* book with, and the total quantity matched for an order as the incoming
\* order never exceeds the quantity it was created with.
C34_ExactlyOnceConsumption ==
  ledger.on =>
    \A id \in 1..MaxOrders :
      /\ ledger.accounts[id].given <= ledger.accounts[id].rested
      /\ ledger.accounts[id].taken <= ledger.accounts[id].original
      /\ ledger.accounts[id].taken + ledger.accounts[id].rested
           <= ledger.accounts[id].original

\* Witness of C34: an order was partly matched as the incoming order,
\* rested with the remainder, and the whole remainder was later matched
\* against it.
C34_Witness ==
  /\ ledger.on
  /\ \E id \in 1..MaxOrders :
       /\ ledger.accounts[id].taken > 0
       /\ ledger.accounts[id].rested > 0
       /\ ledger.accounts[id].given = ledger.accounts[id].rested

\* ---------------------------------------------------------------- C40
\* C40: every submit ends after at most as many iterations of the crossing
\* loop as the opposite side had entries, one entry being taken off it per
\* iteration; a call that returns has made exactly that many.
C40_LoopBoundedByOppositeSide ==
  IsSubmit =>
    /\ last.iterations <= Len(Opposite0)
    /\ last.raised = "none" => last.iterations = Len(Opposite0)
    /\ last.raised = "none" =>
         Len(OppositeNow) <= Len(Opposite0) + 1

\* Witness of C40: a submit returned after walking an opposite side of two
\* entries, one of which it matched.
C40_Witness ==
  /\ IsSubmit /\ last.raised = "none"
  /\ Len(Opposite0) = 2 /\ last.iterations = 2
  /\ Len(last.filled) > 0

\* ---------------------------------------------------------------- C38
\* The last call was a submit_order that reached the engine, and the status
\* the broker holds for it.
IsBrokerSubmit ==
  /\ IsSubmit
  /\ broker.order_counter > 0
  /\ broker.submitted_orders[broker.order_counter] = last.id

Status == broker.order_status[broker.order_counter]

IsSuffix(tail, s) ==
  /\ Len(tail) <= Len(s)
  /\ SubSeq(s, Len(s) - Len(tail) + 1, Len(s)) = tail

\* C38: after submit_order on a connected broker, an order whose
\* submission produced at least one fill has status FILLED, its fills are
\* the end of the broker's fill list, and positions and cash are those of
\* applying every fill of the list; a Limit order that produced no fill is
\* PENDING and an IOC order that produced no fill is CANCELLED.
C38_BrokerStatusFollowsFills ==
  IsBrokerSubmit =>
    IF last.filled # <<>>
    THEN /\ Status = "FILLED"
         /\ IsSuffix(last.filled, broker.fills)
         /\ ApplyFills(NewBroker, broker.fills).broker.positions = broker.positions
         /\ ApplyFills(NewBroker, broker.fills).broker.cash = broker.cash
    ELSE /\ last.order.type = "LIMIT" => Status = "PENDING"
         /\ last.order.type = "IOC" => Status = "CANCELLED"

\* ---------------------------------------------------------------- C39
\* C39: whenever submit_order leaves an order with status REJECTED, both
\* sides of the engine's book are as they were before the submission.
C39_RejectedLeavesBookUntouched ==
  (IsBrokerSubmit /\ Status = "REJECTED") => BooksUnchanged

====
